---- MODULE Spec2Model ----
(***************************************************************************)
(* Bank management system: the ledger core (Customer / Account /           *)
(* Transaction, deposit / withdraw / transfer), the identity store (User,  *)
(* login / register / status / delete) and the whole-document JSON         *)
(* persistence behind both, as implemented by scripts/models.py and        *)
(* scripts/services.py and driven by main.py and pages/auth_pages.py.      *)
(*                                                                         *)
(* Money is a Python float.  A float is modelled as a whole number of the   *)
(* smallest unit that is kept to FloatPrecision significant binary digits  *)
(* (53 in CPython): every sum and difference is rounded to the nearest     *)
(* such number, ties to even.  A Python dict is modelled as the sequence   *)
(* of its values in insertion order; a lookup scans the sequence for the   *)
(* key.  uuid4() is the next unused number of a counter; datetime.now()    *)
(* is a reading of a non-decreasing clock.                                 *)
(***************************************************************************)
EXTENDS Integers, Sequences, FiniteSets, TLC

VARIABLES
    customers,    \* BankManagementService._customers
    accounts,     \* BankManagementService._accounts
    opening,      \* history: the balance each Account was constructed with
    ledger_file,  \* content of bank_data.json
    users,        \* UserAuthService._users
    users_file,   \* content of users.json
    clock,        \* last reading of datetime.now()
    uuid_count,   \* number of uuid4() values drawn so far
    last,         \* the last call made by the presentation layer and its outcome
    history,      \* the list the last get_transaction_history call returned
    session_user, \* st.session_state.user of a browser session: <<>> or <<User>>
    threads       \* the script thread of each browser session: where it stands

vars == <<customers, accounts, opening, ledger_file, users, users_file,
          clock, uuid_count, last, history, session_user, threads>>

ledger_vars == <<customers, accounts, opening, ledger_file>>
auth_vars == <<users, users_file>>
page_vars == <<history, session_user, threads>>

-----------------------------------------------------------------------------
(* Bounds of the model *)

\* successful mutating calls are made until the clock reads MaxClock
MaxClock == 5

\* significant binary digits of a float
FloatPrecision == 4

(* Inputs the operations are called with *)

Amounts == {-1, 0, 1, 2}
InitialDeposits == {-1, 0, 1}
Names == {"Alice"}
CustomerEmails == {"alice@example.com"}
Phones == {"555-0100"}
Addresses == {"1 Main St"}
AccountTypes == {"savings"}
Descriptions == {"memo"}

None == "None"

\* browser sessions served by the one cached BankingApplication
Sessions == {"session-1", "session-2"}

\* a script thread that is not inside a form handler
Idle == [pc |-> "idle", op |-> None, account_id |-> None, amount |-> 0]

-----------------------------------------------------------------------------
(* Python helpers *)

Last(s) == s[Len(s)]

RECURSIVE SumSeq(_)
SumSeq(s) == IF s = <<>> THEN 0 ELSE s[1] + SumSeq(Tail(s))

\* the spacing of the floats around magnitude m
RECURSIVE Quantum(_)
Quantum(m) == IF m < 2 ^ FloatPrecision THEN 1 ELSE 2 * Quantum(m \div 2)

\* the float nearest to the exact value x, ties to the even significand
RoundFloat(x) ==
    LET m == IF x < 0 THEN 0 - x ELSE x
        q == Quantum(m)
        below == (m \div q) * q
        rest == m - below
        nearest == IF 2 * rest < q THEN below
                   ELSE IF 2 * rest > q THEN below + q
                   ELSE IF (m \div q) % 2 = 0 THEN below
                   ELSE below + q
    IN  IF x < 0 THEN 0 - nearest ELSE nearest

\* a + b and a - b on floats
FloatAdd(a, b) == RoundFloat(a + b)
FloatSub(a, b) == RoundFloat(a - b)

\* sum(values): added from the left, starting from 0
RECURSIVE FloatSum(_)
FloatSum(s) ==
    IF s = <<>> THEN 0 ELSE FloatAdd(FloatSum(SubSeq(s, 1, Len(s) - 1)), Last(s))

\* str(uuid.uuid4()): the k-th value drawn
Uuid(k) == "uuid-" \o ToString(k)

\* f"{n:06d}"
Format06d(n) ==
    LET s == ToString(n)
    IN  IF Len(s) >= 6 THEN s ELSE SubSeq("000000", 1, 6 - Len(s)) \o s

\* the id numbered with len(self._accounts), without the + 1
AccountId_without_increment(n) == "ACC" \o Format06d(n - 1)

\* f"ACC{len(self._accounts) + 1:06d}"
AccountId(n) == "ACC" \o Format06d(n)

\* position of the value stored under key in a dict, 0 when the key is absent
IndexOf(dict, key) ==
    IF \E i \in DOMAIN dict : dict[i].id = key
    THEN CHOOSE i \in DOMAIN dict : dict[i].id = key
    ELSE 0

Has(dict, key) == IndexOf(dict, key) # 0

\* dict[key] = value
DictSet(dict, key, value) ==
    IF Has(dict, key)
    THEN [dict EXCEPT ![IndexOf(dict, key)] = value]
    ELSE Append(dict, value)

-----------------------------------------------------------------------------
(* scripts/models.py *)

Customer(customer_id, name, email, phone, address, now) ==
    [id |-> customer_id, name |-> name, email |-> email, phone |-> phone,
     address |-> address, created_date |-> now, accounts |-> <<>>]

\* Customer.add_account
Customer_add_account(customer, account_id) ==
    IF \E i \in DOMAIN customer.accounts : customer.accounts[i] = account_id
    THEN customer
    ELSE [customer EXCEPT !.accounts = Append(@, account_id)]

Transaction(transaction_id, account_id, transaction_type, amount, balance_after, description, now, reference_account) ==
    [id |-> transaction_id, account_id |-> account_id,
     type |-> transaction_type, amount |-> amount,
     balance_after |-> balance_after, description |-> description,
     timestamp |-> now, reference_account |-> reference_account]

Account(account_id, customer_id, account_type, balance, now) ==
    [id |-> account_id, customer_id |-> customer_id, type |-> account_type,
     balance |-> balance, status |-> "active", created_date |-> now,
     transactions |-> <<>>]

\* Account.deposit with the amount check written "amount < 0"
Account_deposit_accepts_zero(account, amount, description, uuid, now) ==
    IF amount < 0
    THEN [raised |-> "Deposit amount must be positive", account |-> account]
    ELSE LET balance == account.balance + amount
         IN  [raised |-> None,
              account |->
                  [account EXCEPT
                      !.balance = balance,
                      !.transactions = Append(@,
                          Transaction(uuid, account.id, "deposit", amount,
                                      balance, description, now, None))]]

\* Account.deposit: the exception raised (None when it returns) and the
\* account as the call leaves it
Account_deposit(account, amount, description, uuid, now) ==
    IF amount <= 0
    THEN [raised |-> "Deposit amount must be positive", account |-> account]
    ELSE LET balance == FloatAdd(account.balance, amount)
         IN  [raised |-> None,
              account |->
                  [account EXCEPT
                      !.balance = balance,
                      !.transactions = Append(@,
                          Transaction(uuid, account.id, "deposit", amount,
                                      balance, description, now, None))]]

\* Account.withdraw with the funds check written "amount >= self._balance"
Account_withdraw_keeps_one(account, amount, description, uuid, now) ==
    IF amount <= 0
    THEN [raised |-> "Withdrawal amount must be positive", account |-> account]
    ELSE IF amount >= account.balance
    THEN [raised |-> "Insufficient funds", account |-> account]
    ELSE LET balance == account.balance - amount
         IN  [raised |-> None,
              account |->
                  [account EXCEPT
                      !.balance = balance,
                      !.transactions = Append(@,
                          Transaction(uuid, account.id, "withdraw", amount,
                                      balance, description, now, None))]]

\* Account.withdraw
Account_withdraw(account, amount, description, uuid, now) ==
    IF amount <= 0
    THEN [raised |-> "Withdrawal amount must be positive", account |-> account]
    ELSE IF amount > account.balance
    THEN [raised |-> "Insufficient funds", account |-> account]
    ELSE LET balance == FloatSub(account.balance, amount)
         IN  [raised |-> None,
              account |->
                  [account EXCEPT
                      !.balance = balance,
                      !.transactions = Append(@,
                          Transaction(uuid, account.id, "withdraw", amount,
                                      balance, description, now, None))]]

\* Account.add_transaction written with insert(0, transaction)
Account_add_transaction_at_front(account, transaction) ==
    [account EXCEPT !.transactions = <<transaction>> \o @]

\* Account.add_transaction
Account_add_transaction(account, transaction) ==
    [account EXCEPT !.transactions = Append(@, transaction)]

\* one step of sorted(..., key=created_at, reverse=True): the transaction is
\* put after every one created at the same time or later, so that equal
\* keys keep the order they had (the sort is stable)
InsertByCreatedAt(sorted, transaction) ==
    LET k == Cardinality({i \in DOMAIN sorted :
                             sorted[i].timestamp >= transaction.timestamp})
    IN  SubSeq(sorted, 1, k) \o <<transaction>> \o SubSeq(sorted, k + 1, Len(sorted))

\* sorted(self._transactions, key=lambda x: x.created_at, reverse=True)
RECURSIVE SortedByCreatedAt(_, _)
SortedByCreatedAt(transactions, sorted) ==
    IF transactions = <<>>
    THEN sorted
    ELSE SortedByCreatedAt(Tail(transactions),
                           InsertByCreatedAt(sorted, Head(transactions)))

\* sequence[:n] for n >= 0
Slice(sequence, n) ==
    SubSeq(sequence, 1, IF n < Len(sequence) THEN n ELSE Len(sequence))

\* Account.get_transaction_history; limit is <<>> for None and <<n>> for n.
\* "if limit" is false for None and for 0.
get_transaction_history(account, limit) ==
    LET sorted_transactions == SortedByCreatedAt(account.transactions, <<>>)
    IN  IF limit # <<>> /\ limit[1] # 0
        THEN Slice(sorted_transactions, limit[1])
        ELSE sorted_transactions

\* Transaction.to_dict
Transaction_to_dict(t) ==
    [transaction_id |-> t.id, account_id |-> t.account_id,
     transaction_type |-> t.type, amount |-> t.amount,
     balance_after |-> t.balance_after, description |-> t.description,
     timestamp |-> t.timestamp, reference_account |-> t.reference_account]

\* Account.to_dict
Account_to_dict(a) ==
    [account_id |-> a.id, customer_id |-> a.customer_id,
     account_type |-> a.type, balance |-> a.balance, status |-> a.status,
     created_date |-> a.created_date,
     transactions |->
         [i \in DOMAIN a.transactions |-> Transaction_to_dict(a.transactions[i])]]

\* Customer.to_dict
Customer_to_dict(c) ==
    [customer_id |-> c.id, name |-> c.name, email |-> c.email,
     phone |-> c.phone, address |-> c.address, created_date |-> c.created_date]

\* Customer.from_dict
Customer_from_dict(data) ==
    Customer(data.customer_id, data.name, data.email, data.phone,
             data.address, data.created_date)

\* Transaction.from_dict
Transaction_from_dict(data) ==
    Transaction(data.transaction_id, data.account_id, data.transaction_type,
                data.amount, data.balance_after, data.description,
                data.timestamp, data.reference_account)

\* Account.from_dict that does not read 'transactions'
Account_from_dict_without_transactions(data) ==
    [Account(data.account_id, data.customer_id, data.account_type,
             data.balance, data.created_date)
     EXCEPT !.status = data.status]

\* Account.from_dict
Account_from_dict(data) ==
    [Account(data.account_id, data.customer_id, data.account_type,
             data.balance, data.created_date)
     EXCEPT !.status = data.status,
            !.transactions =
                [i \in DOMAIN data.transactions |->
                    Transaction_from_dict(data.transactions[i])]]

-----------------------------------------------------------------------------
(* scripts/services.py: BankManagementService *)

\* the document _save_data builds from the in-memory stores
LedgerDocument(custs, accts) ==
    [customers |-> [i \in DOMAIN custs |-> Customer_to_dict(custs[i])],
     accounts |-> [i \in DOMAIN accts |-> Account_to_dict(accts[i])]]

\* A file is absent or holds a JSON document; data is the document it holds
\* (of an absent file: the document with nothing in it).
NoLedgerFile == [kind |-> "absent", data |-> [customers |-> <<>>, accounts |-> <<>>]]

\* JSONDataService.load_data as _load_data reads it: an absent file is {},
\* and data.get('customers', []) / data.get('accounts', []) of {} are empty
LoadedLedger(file) ==
    IF file.kind = "json"
    THEN file.data
    ELSE [customers |-> <<>>, accounts |-> <<>>]

\* _save_data called before the stores are changed: it writes the stores as
\* they were when the call began
SavedLedger_before_change(custs, accts) ==
    [kind |-> "json", data |-> LedgerDocument(customers, accounts)]

\* BankManagementService._save_data followed by JSONDataService.save_data
SavedLedger(custs, accts) ==
    [kind |-> "json", data |-> LedgerDocument(custs, accts)]

\* _load_data, "Load customers": the dict the loop builds from the documents
RECURSIVE LoadCustomers(_, _)
LoadCustomers(documents, custs) ==
    IF documents = <<>>
    THEN custs
    ELSE LoadCustomers(Tail(documents),
                       DictSet(custs, Head(documents).customer_id,
                               Customer_from_dict(Head(documents))))

\* _load_data, "Load accounts": each account is stored and linked to its
\* customer when that customer was loaded
RECURSIVE LoadAccounts(_, _)
LoadAccounts(documents, stores) ==
    IF documents = <<>>
    THEN stores
    ELSE LET account == Account_from_dict(Head(documents))
             c == IndexOf(stores.customers, account.customer_id)
         IN  LoadAccounts(Tail(documents),
                 [customers |->
                      IF c # 0
                      THEN [stores.customers EXCEPT
                               ![c] = Customer_add_account(@, account.id)]
                      ELSE stores.customers,
                  accounts |-> DictSet(stores.accounts, account.id, account)])

\* BankManagementService._load_data: the stores it builds from the file
load_data(file) ==
    LET data == LoadedLedger(file)
    IN  LoadAccounts(data.accounts,
                     [customers |-> LoadCustomers(data.customers, <<>>),
                      accounts |-> <<>>])

\* the call the presentation layer made and what it got back
\* ok: the call returned (ledger calls) or returned success (identity calls);
\* result: the exception text or the returned message, None when there is none
Call(op, ok, result) ==
    [op |-> op, ok |-> ok, result |-> result]

\* BankManagementService.create_customer
create_customer(name, email, phone, address, now) ==
    LET customer_id == Uuid(uuid_count + 1)
        customers1 == DictSet(customers, customer_id,
                              Customer(customer_id, name, email, phone, address, now))
    IN  /\ customers' = customers1
        /\ ledger_file' = SavedLedger(customers1, accounts)
        /\ uuid_count' = uuid_count + 1
        /\ clock' = now
        /\ last' = Call("create_customer", TRUE, None)
        /\ UNCHANGED <<accounts, opening, users, users_file>>

\* the Account create_account builds before it stores it (lines 229-233)
NewAccount(account_id, customer_id, account_type, initial_deposit, uuid, now) ==
    LET account == Account(account_id, customer_id, account_type,
                           initial_deposit, now)
    IN  IF initial_deposit > 0
        THEN Account_deposit(account, initial_deposit, "Initial deposit",
                             uuid, now).account
        ELSE account

\* create_account without the "Customer not found" check: the account is
\* stored, and linked to the customer only when there is one
create_account_any_customer(customer_id, account_type, initial_deposit, now) ==
    LET account_id == AccountId(Len(accounts) + 1)
        account == NewAccount(account_id, customer_id, account_type,
                              initial_deposit, Uuid(uuid_count + 1), now)
        accounts1 == DictSet(accounts, account_id, account)
        customers1 == IF Has(customers, customer_id)
                      THEN [customers EXCEPT
                               ![IndexOf(customers, customer_id)] =
                                   Customer_add_account(@, account_id)]
                      ELSE customers
    IN  /\ accounts' = accounts1
        /\ opening' = Append(opening, initial_deposit)
        /\ customers' = customers1
        /\ ledger_file' = SavedLedger(customers1, accounts1)
        /\ uuid_count' = IF initial_deposit > 0
                         THEN uuid_count + 1 ELSE uuid_count
        /\ clock' = now
        /\ last' = Call("create_account", TRUE, account_id)
        /\ UNCHANGED <<users, users_file>>

\* BankManagementService.create_account
create_account(customer_id, account_type, initial_deposit, now) ==
    IF ~Has(customers, customer_id)
    THEN /\ last' = Call("create_account", FALSE, "Customer not found")
         /\ UNCHANGED <<customers, accounts, opening, ledger_file, users,
                        users_file, clock, uuid_count>>
    ELSE LET account_id == AccountId(Len(accounts) + 1)
             account == NewAccount(account_id, customer_id, account_type,
                                   initial_deposit, Uuid(uuid_count + 1), now)
             accounts1 == DictSet(accounts, account_id, account)
             c == IndexOf(customers, customer_id)
             customers1 == [customers EXCEPT
                               ![c] = Customer_add_account(@, account_id)]
         IN  /\ accounts' = accounts1
             /\ opening' = IF Has(accounts, account_id)
                           THEN [opening EXCEPT
                                    ![IndexOf(accounts, account_id)] = initial_deposit]
                           ELSE Append(opening, initial_deposit)
             /\ customers' = customers1
             /\ ledger_file' = SavedLedger(customers1, accounts1)
             /\ uuid_count' = IF initial_deposit > 0
                              THEN uuid_count + 1 ELSE uuid_count
             /\ clock' = now
             /\ last' = Call("create_account", TRUE, account_id)
             /\ UNCHANGED <<users, users_file>>

\* main.py, the deposit form: account.deposit(...) then _save_data()
deposit(account_id, amount, description, now) ==
    /\ Has(accounts, account_id)
    /\ LET i == IndexOf(accounts, account_id)
           r == Account_deposit(accounts[i], amount, description,
                                Uuid(uuid_count + 1), now)
       IN  IF r.raised # None
           THEN /\ last' = Call("deposit", FALSE, r.raised)
                /\ UNCHANGED <<customers, accounts, opening, ledger_file,
                               users, users_file, clock, uuid_count>>
           ELSE LET accounts1 == [accounts EXCEPT ![i] = r.account]
                IN  /\ accounts' = accounts1
                    /\ ledger_file' = SavedLedger(customers, accounts1)
                    /\ uuid_count' = uuid_count + 1
                    /\ clock' = now
                    /\ last' = Call("deposit", TRUE, None)
                    /\ UNCHANGED <<customers, opening, users, users_file>>

\* main.py, the withdraw form: account.withdraw(...) then _save_data()
withdraw(account_id, amount, description, now) ==
    /\ Has(accounts, account_id)
    /\ LET i == IndexOf(accounts, account_id)
           r == Account_withdraw(accounts[i], amount, description,
                                 Uuid(uuid_count + 1), now)
       IN  IF r.raised # None
           THEN /\ last' = Call("withdraw", FALSE, r.raised)
                /\ UNCHANGED <<customers, accounts, opening, ledger_file,
                               users, users_file, clock, uuid_count>>
           ELSE LET accounts1 == [accounts EXCEPT ![i] = r.account]
                IN  /\ accounts' = accounts1
                    /\ ledger_file' = SavedLedger(customers, accounts1)
                    /\ uuid_count' = uuid_count + 1
                    /\ clock' = now
                    /\ last' = Call("withdraw", TRUE, None)
                    /\ UNCHANGED <<customers, opening, users, users_file>>

\* the funds check with its operands exchanged
InsufficientFunds_exchanged(balance, amount) == amount < balance

\* transfer_funds, line 262: the funds check
InsufficientFunds(balance, amount) == balance < amount

\* transfer_funds, lines 267-275: built from the balance before the transfer
FromTransaction(accts, from_account_id, to_account_id, amount, description, uuid, now) ==
    Transaction(uuid, from_account_id, "transfer_out", amount,
                FloatSub(accts[IndexOf(accts, from_account_id)].balance, amount),
                "Transfer to " \o to_account_id \o ": " \o description,
                now, to_account_id)

\* transfer_funds, lines 277-285: built from the balance before the transfer
ToTransaction(accts, from_account_id, to_account_id, amount, description, uuid, now) ==
    Transaction(uuid, to_account_id, "transfer_in", amount,
                FloatAdd(accts[IndexOf(accts, to_account_id)].balance, amount),
                "Transfer from " \o from_account_id \o ": " \o description,
                now, from_account_id)

\* account._balance += delta
AdjustBalance(accts, account_id, delta) ==
    [accts EXCEPT ![IndexOf(accts, account_id)].balance = FloatAdd(@, delta)]

\* account.add_transaction(transaction) on the account stored under account_id
AddTransaction(accts, account_id, transaction) ==
    [accts EXCEPT ![IndexOf(accts, account_id)] =
                      Account_add_transaction(@, transaction)]

\* transfer_funds without "to_account._balance += amount"
TransferApplied_no_credit(accts, from_account_id, to_account_id, amount, description, uuid_out, uuid_in, now_out, now_in) ==
    LET from_transaction ==
            FromTransaction(accts, from_account_id, to_account_id, amount,
                            description, uuid_out, now_out)
        to_transaction ==
            ToTransaction(accts, from_account_id, to_account_id, amount,
                          description, uuid_in, now_in)
        a1 == AdjustBalance(accts, from_account_id, 0 - amount)
        a3 == AddTransaction(a1, from_account_id, from_transaction)
        a4 == AddTransaction(a3, to_account_id, to_transaction)
    IN  a4

\* transfer_funds handing the ledger to _save_data when only the source
\* account has been debited and given its transaction
TransferApplied_source_only(accts, from_account_id, to_account_id, amount, description, uuid_out, uuid_in, now_out, now_in) ==
    LET from_transaction ==
            FromTransaction(accts, from_account_id, to_account_id, amount,
                            description, uuid_out, now_out)
        a1 == AdjustBalance(accts, from_account_id, 0 - amount)
        a3 == AddTransaction(a1, from_account_id, from_transaction)
    IN  a3

\* transfer_funds, lines 265-293: both transactions are built, then the two
\* balances are updated, then the two transactions are appended; from and to
\* may be the same account
TransferApplied(accts, from_account_id, to_account_id, amount, description, uuid_out, uuid_in, now_out, now_in) ==
    LET from_transaction ==
            FromTransaction(accts, from_account_id, to_account_id, amount,
                            description, uuid_out, now_out)
        to_transaction ==
            ToTransaction(accts, from_account_id, to_account_id, amount,
                          description, uuid_in, now_in)
        a1 == AdjustBalance(accts, from_account_id, 0 - amount)
        a2 == AdjustBalance(a1, to_account_id, amount)
        a3 == AddTransaction(a2, from_account_id, from_transaction)
        a4 == AddTransaction(a3, to_account_id, to_transaction)
    IN  a4

\* transfer_funds with the funds check made before the existence check
transfer_funds_funds_first(from_account_id, to_account_id, amount, description, now_out, now_in) ==
    IF /\ Has(accounts, from_account_id)
       /\ InsufficientFunds(accounts[IndexOf(accounts, from_account_id)].balance,
                            amount)
    THEN /\ last' = Call("transfer_funds", FALSE, "Insufficient funds")
         /\ UNCHANGED <<customers, accounts, opening, ledger_file, users,
                        users_file, clock, uuid_count>>
    ELSE IF ~Has(accounts, from_account_id) \/ ~Has(accounts, to_account_id)
    THEN /\ last' = Call("transfer_funds", FALSE, "One or both accounts not found")
         /\ UNCHANGED <<customers, accounts, opening, ledger_file, users,
                        users_file, clock, uuid_count>>
    ELSE LET accounts1 ==
                 TransferApplied(accounts, from_account_id, to_account_id,
                                 amount, description, Uuid(uuid_count + 1),
                                 Uuid(uuid_count + 2), now_out, now_in)
         IN  /\ accounts' = accounts1
             /\ ledger_file' = SavedLedger(customers, accounts1)
             /\ uuid_count' = uuid_count + 2
             /\ clock' = now_in
             /\ last' = Call("transfer_funds", TRUE, None)
             /\ UNCHANGED <<customers, opening, users, users_file>>

\* BankManagementService.transfer_funds
transfer_funds(from_account_id, to_account_id, amount, description, now_out, now_in) ==
    IF ~Has(accounts, from_account_id) \/ ~Has(accounts, to_account_id)
    THEN /\ last' = Call("transfer_funds", FALSE, "One or both accounts not found")
         /\ UNCHANGED <<customers, accounts, opening, ledger_file, users,
                        users_file, clock, uuid_count>>
    ELSE IF InsufficientFunds(accounts[IndexOf(accounts, from_account_id)].balance,
                              amount)
    THEN /\ last' = Call("transfer_funds", FALSE, "Insufficient funds")
         /\ UNCHANGED <<customers, accounts, opening, ledger_file, users,
                        users_file, clock, uuid_count>>
    ELSE LET accounts1 ==
                 TransferApplied(accounts, from_account_id, to_account_id,
                                 amount, description, Uuid(uuid_count + 1),
                                 Uuid(uuid_count + 2), now_out, now_in)
         IN  /\ accounts' = accounts1
             /\ ledger_file' = SavedLedger(customers, accounts1)
             /\ uuid_count' = uuid_count + 2
             /\ clock' = now_in
             /\ last' = Call("transfer_funds", TRUE, None)
             /\ UNCHANGED <<customers, opening, users, users_file>>

\* BankManagementService.get_bank_summary: total_balance
TotalBalance(accts) == FloatSum([i \in DOMAIN accts |-> accts[i].balance])

-----------------------------------------------------------------------------
(* scripts/models.py: User *)

\* User._hash_password: the SHA-256 digest, taken to be collision free
hash_password(password) == "sha256:" \o password

\* User.create_user
create_user(username, email, password, role, full_name, phone, customer_id, uuid, now) ==
    [id |-> uuid, username |-> username, email |-> email,
     password_hash |-> hash_password(password), role |-> role,
     name |-> full_name, phone |-> phone, is_active |-> TRUE,
     created_date |-> now, last_login |-> None, customer_id |-> customer_id]

\* User.check_password comparing the stored hash with the password as typed
check_password_unhashed(user, password) == user.password_hash = password

\* User.check_password
check_password(user, password) == user.password_hash = hash_password(password)

\* User.to_dict
User_to_dict(u) ==
    [user_id |-> u.id, username |-> u.username, email |-> u.email,
     password_hash |-> u.password_hash, role |-> u.role,
     full_name |-> u.name, phone |-> u.phone, is_active |-> u.is_active,
     created_date |-> u.created_date, last_login |-> u.last_login,
     customer_id |-> u.customer_id]

\* User.from_dict
User_from_dict(data) ==
    [id |-> data.user_id, username |-> data.username, email |-> data.email,
     password_hash |-> data.password_hash, role |-> data.role,
     name |-> data.full_name, phone |-> data.phone,
     is_active |-> data.is_active, created_date |-> data.created_date,
     last_login |-> data.last_login, customer_id |-> data.customer_id]

-----------------------------------------------------------------------------
(* scripts/services.py: UserAuthService *)

\* position of the user stored under username in _users, 0 when absent
UserIndex(dict, username) ==
    IF \E i \in DOMAIN dict : dict[i].username = username
    THEN CHOOSE i \in DOMAIN dict : dict[i].username = username
    ELSE 0

HasUser(dict, username) == UserIndex(dict, username) # 0

\* self._users[username] = user
UserSet(dict, username, user) ==
    IF HasUser(dict, username)
    THEN [dict EXCEPT ![UserIndex(dict, username)] = user]
    ELSE Append(dict, user)

\* del self._users[username]
UserDel(dict, username) ==
    LET k == UserIndex(dict, username)
    IN  SubSeq(dict, 1, k - 1) \o SubSeq(dict, k + 1, Len(dict))

\* the document _save_users builds
UsersDocument(us) == [users |-> [i \in DOMAIN us |-> User_to_dict(us[i])]]

\* UserAuthService._save_users followed by JSONDataService.save_data
SavedUsers(us) == [kind |-> "json", data |-> UsersDocument(us)]

\* UserAuthService._load_users: the users of the document read, none when
\* the file is absent
LoadedUsers(file) ==
    IF file.kind = "json" THEN file.data ELSE [users |-> <<>>]

\* UserAuthService._load_users: the dict the loop builds from the documents
RECURSIVE LoadUsers(_, _)
LoadUsers(documents, us) ==
    IF documents = <<>>
    THEN us
    ELSE LoadUsers(Tail(documents),
                   UserSet(us, Head(documents).username,
                           User_from_dict(Head(documents))))

\* UserAuthService._load_users
load_users(file) == LoadUsers(LoadedUsers(file).users, <<>>)

\* UserAuthService._create_default_admin: the user it adds
DefaultAdmin(uuid, now) ==
    create_user("admin", "admin@bank.com", "admin123", "admin",
                "System Administrator", "1234567890", None, uuid, now)

\* _create_default_admin without the admin_exists test
create_default_admin_every_start(us, uuid, now) ==
    UserSet(us, "admin", DefaultAdmin(uuid, now))

\* UserAuthService._create_default_admin
create_default_admin(us, uuid, now) ==
    IF \E i \in DOMAIN us : us[i].role = "admin"
    THEN us
    ELSE UserSet(us, "admin", DefaultAdmin(uuid, now))

\* register_user with the length check written "len(password) < 5"
RegisterRejection_five_characters(us, username, email, password, full_name, phone) ==
    IF username = "" \/ email = "" \/ password = "" \/ full_name = "" \/ phone = ""
    THEN "All fields are required"
    ELSE IF Len(password) < 5
    THEN "Password must be at least 6 characters long"
    ELSE IF \E i \in DOMAIN us : us[i].username = username
    THEN "Username already exists"
    ELSE IF \E i \in DOMAIN us : us[i].email = email
    THEN "Email already exists"
    ELSE None

\* register_user without the "Email already exists" check
RegisterRejection_username_only(us, username, email, password, full_name, phone) ==
    IF username = "" \/ email = "" \/ password = "" \/ full_name = "" \/ phone = ""
    THEN "All fields are required"
    ELSE IF Len(password) < 6
    THEN "Password must be at least 6 characters long"
    ELSE IF \E i \in DOMAIN us : us[i].username = username
    THEN "Username already exists"
    ELSE None

\* register_user, lines 130-140: the message of the check that rejects the
\* call, None when every check passes
RegisterRejection(us, username, email, password, full_name, phone) ==
    IF username = "" \/ email = "" \/ password = "" \/ full_name = "" \/ phone = ""
    THEN "All fields are required"
    ELSE IF Len(password) < 6
    THEN "Password must be at least 6 characters long"
    ELSE IF \E i \in DOMAIN us : us[i].username = username \/ us[i].email = email
    THEN LET k == CHOOSE i \in DOMAIN us :
                      /\ us[i].username = username \/ us[i].email = email
                      /\ \A j \in 1..(i - 1) :
                             us[j].username # username /\ us[j].email # email
         IN  IF us[k].username = username
             THEN "Username already exists"
             ELSE "Email already exists"
    ELSE None

\* UserAuthService.register_user
register_user(username, email, password, role, full_name, phone, customer_id, now) ==
    LET rejection == RegisterRejection(users, username, email, password,
                                       full_name, phone)
    IN  IF rejection # None
        THEN /\ last' = Call("register_user", FALSE, rejection)
             /\ UNCHANGED <<customers, accounts, opening, ledger_file, users,
                            users_file, clock, uuid_count>>
        ELSE LET new_user == create_user(username, email, password, role,
                                         full_name, phone, customer_id,
                                         Uuid(uuid_count + 1), now)
                 users1 == UserSet(users, username, new_user)
             IN  /\ users' = users1
                 /\ users_file' = SavedUsers(users1)
                 /\ uuid_count' = uuid_count + 1
                 /\ clock' = now
                 /\ last' = Call("register_user", TRUE, "User registered successfully")
                 /\ UNCHANGED <<customers, accounts, opening, ledger_file>>

\* datetime.isoformat: the text of a clock reading
isoformat(now) == "T" \o ToString(now)

\* UserAuthService.login with User.update_last_login
login(username, password, now) ==
    IF ~HasUser(users, username)
    THEN /\ last' = Call("login", FALSE, "Invalid username or password")
         /\ UNCHANGED <<customers, accounts, opening, ledger_file, users,
                        users_file, clock, uuid_count>>
    ELSE LET k == UserIndex(users, username)
         IN  IF ~users[k].is_active
             THEN /\ last' = Call("login", FALSE, "Account is deactivated")
                  /\ UNCHANGED <<customers, accounts, opening, ledger_file,
                                 users, users_file, clock, uuid_count>>
             ELSE IF ~check_password(users[k], password)
             THEN /\ last' = Call("login", FALSE, "Invalid username or password")
                  /\ UNCHANGED <<customers, accounts, opening, ledger_file,
                                 users, users_file, clock, uuid_count>>
             ELSE LET users1 == [users EXCEPT ![k].last_login = isoformat(now)]
                  IN  /\ users' = users1
                      /\ users_file' = SavedUsers(users1)
                      /\ clock' = now
                      /\ last' = Call("login", TRUE, "Login successful")
                      /\ UNCHANGED <<customers, accounts, opening, ledger_file,
                                     uuid_count>>

\* UserAuthService.update_user_status
update_user_status(username, is_active) ==
    IF HasUser(users, username)
    THEN LET users1 == [users EXCEPT
                           ![UserIndex(users, username)].is_active = is_active]
         IN  /\ users' = users1
             /\ users_file' = SavedUsers(users1)
             /\ last' = Call("update_user_status", TRUE, None)
             /\ UNCHANGED <<customers, accounts, opening, ledger_file, clock,
                            uuid_count>>
    ELSE /\ last' = Call("update_user_status", FALSE, None)
         /\ UNCHANGED <<customers, accounts, opening, ledger_file, users,
                        users_file, clock, uuid_count>>

\* delete_user without the username != "admin" condition
delete_user_unprotected(username) ==
    IF HasUser(users, username)
    THEN LET users1 == UserDel(users, username)
         IN  /\ users' = users1
             /\ users_file' = SavedUsers(users1)
             /\ last' = Call("delete_user", TRUE, None)
             /\ UNCHANGED <<customers, accounts, opening, ledger_file, clock,
                            uuid_count>>
    ELSE /\ last' = Call("delete_user", FALSE, None)
         /\ UNCHANGED <<customers, accounts, opening, ledger_file, users,
                        users_file, clock, uuid_count>>

\* UserAuthService.delete_user
delete_user(username) ==
    IF HasUser(users, username) /\ username # "admin"
    THEN LET users1 == UserDel(users, username)
         IN  /\ users' = users1
             /\ users_file' = SavedUsers(users1)
             /\ last' = Call("delete_user", TRUE, None)
             /\ UNCHANGED <<customers, accounts, opening, ledger_file, clock,
                            uuid_count>>
    ELSE /\ last' = Call("delete_user", FALSE, None)
         /\ UNCHANGED <<customers, accounts, opening, ledger_file, users,
                        users_file, clock, uuid_count>>

-----------------------------------------------------------------------------
(* The system after BankManagementService() has been constructed in a fresh  *)
(* directory: no bank_data.json, and users.json written by the admin         *)
(* bootstrap.                                                                *)

Init ==
    /\ customers = <<>>
    /\ accounts = <<>>
    /\ opening = <<>>
    /\ ledger_file = NoLedgerFile
    /\ users = create_default_admin(<<>>, Uuid(1), 1)
    /\ users_file = SavedUsers(users)
    /\ clock = 1
    /\ uuid_count = 1
    /\ last = Call("init", TRUE, None)
    /\ history = <<>>
    /\ session_user = <<>>
    /\ threads = [s \in Sessions |-> Idle]

\* customer ids a caller may pass: those of the store and one that is unknown
CustomerIdInputs == {customers[i].id : i \in DOMAIN customers} \cup {"uuid-unknown"}

\* account ids a caller may pass: those of the store and the next, unallocated
AccountIdInputs ==
    {accounts[i].id : i \in DOMAIN accounts} \cup {AccountId(Len(accounts) + 1)}

\* what datetime.now() may read during the next call
Nows == {clock + 1}

CreateCustomer ==
    \E name \in Names, email \in CustomerEmails, phone \in Phones,
       address \in Addresses, now \in Nows :
        /\ create_customer(name, email, phone, address, now)
        /\ clock' <= MaxClock
        /\ UNCHANGED page_vars

CreateAccountOf(deposits) ==
    \E customer_id \in CustomerIdInputs, account_type \in AccountTypes,
       initial_deposit \in deposits, now \in Nows :
        /\ create_account(customer_id, account_type, initial_deposit, now)
        /\ clock' <= MaxClock
        /\ UNCHANGED page_vars

DepositOf(amounts) ==
    \E account_id \in AccountIdInputs, amount \in amounts,
       description \in Descriptions, now \in Nows :
        /\ deposit(account_id, amount, description, now)
        /\ clock' <= MaxClock
        /\ UNCHANGED page_vars

WithdrawOf(amounts) ==
    \E account_id \in AccountIdInputs, amount \in amounts,
       description \in Descriptions, now \in Nows :
        /\ withdraw(account_id, amount, description, now)
        /\ clock' <= MaxClock
        /\ UNCHANGED page_vars

TransferOf(amounts) ==
    \E from_account_id \in AccountIdInputs, to_account_id \in AccountIdInputs,
       amount \in amounts, description \in Descriptions, now \in Nows :
        /\ transfer_funds(from_account_id, to_account_id, amount, description,
                          now, now)
        /\ clock' <= MaxClock
        /\ UNCHANGED page_vars

CreateAccount == CreateAccountOf(InitialDeposits)
Deposit == DepositOf(Amounts)
Withdraw == WithdrawOf(Amounts)
Transfer == TransferOf(Amounts)

\* The ledger, called with any amounts
Next == CreateCustomer \/ CreateAccount \/ Deposit \/ Withdraw \/ Transfer

Spec == Init /\ [][Next]_vars

-----------------------------------------------------------------------------
(* The facade: the ledger and the identity store together *)

FacadeAmounts == {1}
FacadeUsernames == {"admin", "bob"}
FacadeEmails == {"bob@example.com"}
FacadePasswords == {"admin123", "bobsecret"}
FacadeRoles == {"employee"}
FacadeFullNames == {"Bob Stone"}
FacadePhones == {"555-0101"}

RegisterOf(usernames, emails, passwords, roles, full_names, phones) ==
    \E username \in usernames, email \in emails, password \in passwords,
       role \in roles, full_name \in full_names, phone \in phones,
       now \in Nows :
        /\ register_user(username, email, password, role, full_name, phone,
                         None, now)
        /\ clock' <= MaxClock
        /\ UNCHANGED page_vars

LoginOf(usernames, passwords) ==
    \E username \in usernames, password \in passwords, now \in Nows :
        /\ login(username, password, now)
        /\ clock' <= MaxClock
        /\ UNCHANGED page_vars

SetActiveOf(usernames) ==
    \E username \in usernames, is_active \in BOOLEAN :
        /\ update_user_status(username, is_active)
        /\ UNCHANGED page_vars

DeleteOf(usernames) ==
    \E username \in usernames :
        /\ delete_user(username)
        /\ UNCHANGED page_vars

FacadeCreateAccount == CreateAccountOf(FacadeAmounts)
FacadeDeposit == DepositOf(FacadeAmounts)
FacadeWithdraw == WithdrawOf(FacadeAmounts)
FacadeTransfer == TransferOf(FacadeAmounts)
FacadeRegister ==
    RegisterOf(FacadeUsernames, FacadeEmails, FacadePasswords, FacadeRoles,
               FacadeFullNames, FacadePhones)
FacadeLogin == LoginOf(FacadeUsernames, FacadePasswords)
FacadeSetActive == SetActiveOf(FacadeUsernames)
FacadeDelete == DeleteOf(FacadeUsernames)

NextFacade ==
    \/ CreateCustomer \/ FacadeCreateAccount \/ FacadeDeposit
    \/ FacadeWithdraw \/ FacadeTransfer
    \/ FacadeRegister \/ FacadeLogin \/ FacadeSetActive \/ FacadeDelete

SpecFacade == Init /\ [][NextFacade]_vars

-----------------------------------------------------------------------------
(* The ledger with its transaction history page *)

\* the limits get_transaction_history is called with: none, and 0, 1, 2
Limits == {<<>>, <<0>>, <<1>>, <<2>>}
HistoryInitialDeposits == {0}
HistoryAmounts == {1, 2}

\* main.py, the history tab: get_account(...).get_transaction_history(limit)
show_history(account_id, limit) ==
    /\ Has(accounts, account_id)
    /\ history' = get_transaction_history(accounts[IndexOf(accounts, account_id)],
                                          limit)
    /\ last' = Call("get_transaction_history", TRUE, None)
    /\ UNCHANGED <<customers, accounts, opening, ledger_file, users,
                   users_file, clock, uuid_count, session_user, threads>>

ShowHistory ==
    \E account_id \in AccountIdInputs, limit \in Limits :
        show_history(account_id, limit)

HistoryCreateAccount == CreateAccountOf(HistoryInitialDeposits)
HistoryDeposit == DepositOf(HistoryAmounts)
HistoryWithdraw == WithdrawOf(HistoryAmounts)

NextHistory ==
    \/ CreateCustomer \/ HistoryCreateAccount \/ HistoryDeposit
    \/ HistoryWithdraw \/ ShowHistory

SpecHistory == Init /\ [][NextHistory]_vars

-----------------------------------------------------------------------------
(* The ledger on a disk where JSONDataService.save_data can raise OSError   *)

\* a file left unreadable: open(..., 'w') has truncated it and json.dump
\* wrote nothing or a part of the document
TornFile == [kind |-> "malformed", data |-> [customers |-> <<>>, accounts |-> <<>>]]

\* what save_data leaves on disk when it raises: the file as it was when
\* open() itself failed, a truncated file when a write failed
FailedSave(file) == {file, TornFile}

\* transfer_funds that restores the balances and logs when the save raises
transfer_funds_save_fails_restoring(from_account_id, to_account_id, amount, description, now_out, now_in, file_left) ==
    /\ Has(accounts, from_account_id) /\ Has(accounts, to_account_id)
    /\ ~InsufficientFunds(accounts[IndexOf(accounts, from_account_id)].balance,
                          amount)
    /\ ledger_file' = file_left
    /\ uuid_count' = uuid_count + 2
    /\ clock' = now_in
    /\ last' = Call("transfer_funds", FALSE, "OSError")
    /\ UNCHANGED <<accounts, customers, opening, users, users_file>>

\* transfer_funds when _save_data raises on line 295: the exception leaves
\* the function after both balances and both logs have been changed
transfer_funds_save_fails(from_account_id, to_account_id, amount, description, now_out, now_in, file_left) ==
    /\ Has(accounts, from_account_id) /\ Has(accounts, to_account_id)
    /\ ~InsufficientFunds(accounts[IndexOf(accounts, from_account_id)].balance,
                          amount)
    /\ accounts' = TransferApplied(accounts, from_account_id, to_account_id,
                                   amount, description, Uuid(uuid_count + 1),
                                   Uuid(uuid_count + 2), now_out, now_in)
    /\ ledger_file' = file_left
    /\ uuid_count' = uuid_count + 2
    /\ clock' = now_in
    /\ last' = Call("transfer_funds", FALSE, "OSError")
    /\ UNCHANGED <<customers, opening, users, users_file>>

\* create_account when _save_data raises on line 237: the account has been
\* stored and linked to its customer
create_account_save_fails(customer_id, account_type, initial_deposit, now, file_left) ==
    /\ Has(customers, customer_id)
    /\ LET account_id == AccountId(Len(accounts) + 1)
           account == NewAccount(account_id, customer_id, account_type,
                                 initial_deposit, Uuid(uuid_count + 1), now)
       IN  /\ accounts' = DictSet(accounts, account_id, account)
           /\ opening' = Append(opening, initial_deposit)
           /\ customers' = [customers EXCEPT
                               ![IndexOf(customers, customer_id)] =
                                   Customer_add_account(@, account_id)]
    /\ ledger_file' = file_left
    /\ uuid_count' = IF initial_deposit > 0 THEN uuid_count + 1 ELSE uuid_count
    /\ clock' = now
    /\ last' = Call("create_account", FALSE, "OSError")
    /\ UNCHANGED <<users, users_file>>

\* the deposit form when _save_data raises on main.py line 1006, after
\* account.deposit returned
deposit_save_fails(account_id, amount, description, now, file_left) ==
    /\ Has(accounts, account_id)
    /\ LET i == IndexOf(accounts, account_id)
           r == Account_deposit(accounts[i], amount, description,
                                Uuid(uuid_count + 1), now)
       IN  /\ r.raised = None
           /\ accounts' = [accounts EXCEPT ![i] = r.account]
    /\ ledger_file' = file_left
    /\ uuid_count' = uuid_count + 1
    /\ clock' = now
    /\ last' = Call("deposit", FALSE, "OSError")
    /\ UNCHANGED <<customers, opening, users, users_file>>

\* the withdraw form when _save_data raises on main.py line 1026, after
\* account.withdraw returned
withdraw_save_fails(account_id, amount, description, now, file_left) ==
    /\ Has(accounts, account_id)
    /\ LET i == IndexOf(accounts, account_id)
           r == Account_withdraw(accounts[i], amount, description,
                                 Uuid(uuid_count + 1), now)
       IN  /\ r.raised = None
           /\ accounts' = [accounts EXCEPT ![i] = r.account]
    /\ ledger_file' = file_left
    /\ uuid_count' = uuid_count + 1
    /\ clock' = now
    /\ last' = Call("withdraw", FALSE, "OSError")
    /\ UNCHANGED <<customers, opening, users, users_file>>

CreateAccountSaveFails ==
    \E customer_id \in CustomerIdInputs, account_type \in AccountTypes,
       initial_deposit \in FacadeAmounts, now \in Nows,
       file_left \in FailedSave(ledger_file) :
        /\ create_account_save_fails(customer_id, account_type,
                                     initial_deposit, now, file_left)
        /\ clock' <= MaxClock
        /\ UNCHANGED page_vars

DepositSaveFails ==
    \E account_id \in AccountIdInputs, amount \in FacadeAmounts,
       description \in Descriptions, now \in Nows,
       file_left \in FailedSave(ledger_file) :
        /\ deposit_save_fails(account_id, amount, description, now, file_left)
        /\ clock' <= MaxClock
        /\ UNCHANGED page_vars

WithdrawSaveFails ==
    \E account_id \in AccountIdInputs, amount \in FacadeAmounts,
       description \in Descriptions, now \in Nows,
       file_left \in FailedSave(ledger_file) :
        /\ withdraw_save_fails(account_id, amount, description, now, file_left)
        /\ clock' <= MaxClock
        /\ UNCHANGED page_vars

TransferSaveFails ==
    \E from_account_id \in AccountIdInputs, to_account_id \in AccountIdInputs,
       amount \in FacadeAmounts, description \in Descriptions, now \in Nows,
       file_left \in FailedSave(ledger_file) :
        /\ transfer_funds_save_fails(from_account_id, to_account_id, amount,
                                     description, now, now, file_left)
        /\ clock' <= MaxClock
        /\ UNCHANGED page_vars

NextFault ==
    \/ CreateCustomer \/ FacadeCreateAccount \/ FacadeDeposit
    \/ FacadeWithdraw \/ FacadeTransfer
    \/ CreateAccountSaveFails \/ DepositSaveFails \/ WithdrawSaveFails
    \/ TransferSaveFails

SpecFault == Init /\ [][NextFault]_vars

-----------------------------------------------------------------------------
(* The facade across restarts of the process *)

\* BankManagementService.__init__ in a directory that holds the files of an
\* earlier run: UserAuthService.__init__ loads users.json and creates the
\* default admin when no user has the role admin, then _load_data reads
\* bank_data.json.  The session state of the browser sessions is gone.
BankManagementService_init(now) ==
    LET loaded_users == load_users(users_file)
        users1 == create_default_admin(loaded_users, Uuid(uuid_count + 1), now)
        stores == load_data(ledger_file)
    IN  /\ users' = users1
        /\ IF users1 # loaded_users
           THEN /\ users_file' = SavedUsers(users1)
                /\ uuid_count' = uuid_count + 1
                /\ clock' = now
           ELSE UNCHANGED <<users_file, uuid_count, clock>>
        /\ customers' = stores.customers
        /\ accounts' = stores.accounts
        /\ last' = Call("__init__", TRUE, None)
        /\ history' = <<>>
        /\ session_user' = <<>>
        /\ threads' = [s \in Sessions |-> Idle]
        /\ UNCHANGED <<opening, ledger_file>>

Restart ==
    \E now \in Nows :
        /\ BankManagementService_init(now)
        /\ clock' <= MaxClock

NextRestart == NextFacade \/ Restart

SpecRestart == Init /\ [][NextRestart]_vars

-----------------------------------------------------------------------------
(* The identity store alone, called with any form input: empty fields, short *)
(* passwords, and usernames and e-mail addresses already in use              *)

IdentityUsernames == {"", "admin", "bob", "carol"}
LoginPasswords == {"admin123", "bobsecret"}

\* registration forms with every field filled in; the password may be short
FilledForms ==
    [username : {"admin", "bob", "carol"},
     email : {"admin@bank.com", "bob@example.com"},
     password : {"short", "bobsecret"},
     role : {"employee"},
     full_name : {"Bob Stone"},
     phone : {"555-0101"}]

\* a form with one of its required fields left empty
Blanked(form) ==
    {[form EXCEPT !.username = ""], [form EXCEPT !.email = ""],
     [form EXCEPT !.password = ""], [form EXCEPT !.full_name = ""],
     [form EXCEPT !.phone = ""]}

RegistrationForms ==
    FilledForms \cup
    Blanked([username |-> "carol", email |-> "bob@example.com",
             password |-> "bobsecret", role |-> "employee",
             full_name |-> "Bob Stone", phone |-> "555-0101"])

RegisterForm(forms) ==
    \E form \in forms, now \in Nows :
        /\ register_user(form.username, form.email, form.password, form.role,
                         form.full_name, form.phone, None, now)
        /\ clock' <= MaxClock
        /\ UNCHANGED page_vars

ManagedUsernames == {"admin", "bob"}

IdentityRegister == RegisterForm(RegistrationForms)
IdentityLogin == LoginOf(IdentityUsernames, LoginPasswords)
IdentitySetActive == SetActiveOf(ManagedUsernames)
IdentityDelete == DeleteOf(ManagedUsernames)

NextIdentity ==
    IdentityRegister \/ IdentityLogin \/ IdentitySetActive \/ IdentityDelete

SpecIdentity == Init /\ [][NextIdentity]_vars

-----------------------------------------------------------------------------
(* The core called with any strings for account type, status and role *)

\* the account types of the account form, the statuses Account.set_status
\* accepts, and the roles of the registration form
ValidAccountTypes == {"savings", "checking", "business"}
ValidStatuses == {"active", "inactive", "frozen"}
ValidRoles == {"customer", "employee", "admin"}

AnyAccountTypes == {"checking", "gold"}
AnyStatuses == {"inactive", "frozen", "closed"}
AnyRoles == {"customer", "root"}

\* Account.set_status
Account_set_status(account, status) ==
    IF status \in ValidStatuses
    THEN [ok |-> TRUE, account |-> [account EXCEPT !.status = status]]
    ELSE [ok |-> FALSE, account |-> account]

\* get_account(account_id).set_status(status): nothing is saved
set_status(account_id, status) ==
    LET i == IndexOf(accounts, account_id)
        r == Account_set_status(accounts[i], status)
    IN  /\ i # 0
        /\ accounts' = [accounts EXCEPT ![i] = r.account]
        /\ last' = Call("set_status", r.ok,
                        IF r.ok THEN None ELSE "Invalid status")
        /\ UNCHANGED <<customers, opening, ledger_file, users, users_file,
                       clock, uuid_count>>

StringsCreateAccount ==
    \E customer_id \in CustomerIdInputs, account_type \in AnyAccountTypes,
       initial_deposit \in HistoryInitialDeposits, now \in Nows :
        /\ create_account(customer_id, account_type, initial_deposit, now)
        /\ clock' <= MaxClock
        /\ UNCHANGED page_vars

StringsSetStatus ==
    \E account_id \in AccountIdInputs, status \in AnyStatuses :
        /\ set_status(account_id, status)
        /\ UNCHANGED page_vars

StringsRegister ==
    RegisterOf(FacadeUsernames, FacadeEmails, FacadePasswords, AnyRoles,
               FacadeFullNames, FacadePhones)

NextStrings ==
    CreateCustomer \/ StringsCreateAccount \/ StringsSetStatus \/ StringsRegister

SpecStrings == Init /\ [][NextStrings]_vars

-----------------------------------------------------------------------------
(* The ledger with balances large enough for a sum to be rounded *)

FloatInitialDeposits == {1, 2 ^ (FloatPrecision - 1)}
FloatAmounts == {1}

FloatCreateAccount == CreateAccountOf(FloatInitialDeposits)
FloatDeposit == DepositOf(FloatAmounts)
FloatWithdraw == WithdrawOf(FloatAmounts)
FloatTransfer == TransferOf(FloatAmounts)

NextFloat ==
    \/ CreateCustomer \/ FloatCreateAccount \/ FloatDeposit
    \/ FloatWithdraw \/ FloatTransfer

SpecFloat == Init /\ [][NextFloat]_vars

-----------------------------------------------------------------------------
(* The deposit and withdraw forms submitted from several browser sessions:   *)
(* get_application is cached with st.cache_resource, so every session's      *)
(* script thread works on the same BankManagementService, and no lock is     *)
(* taken.  A thread is switched out only where it makes a call.              *)

SessionAmounts == {1}
SessionInitialDeposits == {0, 1}
SessionOperations == {"deposit", "withdraw"}

\* Account.deposit / Account.withdraw up to "self._balance += amount" or
\* "self._balance -= amount": the checks and the new balance
update_balance(session, op, account_id, amount) ==
    /\ threads[session].pc = "idle"
    /\ Has(accounts, account_id)
    /\ LET i == IndexOf(accounts, account_id)
           r == IF op = "deposit"
                THEN Account_deposit(accounts[i], amount, "", "", 0)
                ELSE Account_withdraw(accounts[i], amount, "", "", 0)
       IN  IF r.raised # None
           THEN /\ last' = Call(op, FALSE, r.raised)
                /\ UNCHANGED <<accounts, threads>>
           ELSE /\ accounts' = [accounts EXCEPT ![i].balance = r.account.balance]
                /\ threads' = [threads EXCEPT ![session] =
                                  [pc |-> "updated", op |-> op,
                                   account_id |-> account_id,
                                   amount |-> amount]]
                /\ UNCHANGED last
    /\ UNCHANGED <<customers, opening, ledger_file, users, users_file, clock,
                   uuid_count, history, session_user>>

\* Account.deposit / Account.withdraw from "transaction = Transaction(...)":
\* balance_after is the balance read now, and the transaction is appended
record_transaction(session, description, now) ==
    /\ threads[session].pc = "updated"
    /\ LET t == threads[session]
           i == IndexOf(accounts, t.account_id)
           transaction == Transaction(Uuid(uuid_count + 1), t.account_id,
                                      t.op, t.amount, accounts[i].balance,
                                      description, now, None)
       IN  /\ accounts' = [accounts EXCEPT
                              ![i].transactions = Append(@, transaction)]
           /\ threads' = [threads EXCEPT ![session].pc = "recorded"]
    /\ uuid_count' = uuid_count + 1
    /\ clock' = now
    /\ UNCHANGED <<customers, opening, ledger_file, users, users_file, last,
                   history, session_user>>

\* the form handler after account.deposit / account.withdraw has returned:
\* self.bank_service._save_data()
save_data(session) ==
    /\ threads[session].pc = "recorded"
    /\ ledger_file' = SavedLedger(customers, accounts)
    /\ last' = Call(threads[session].op, TRUE, None)
    /\ threads' = [threads EXCEPT ![session] = Idle]
    /\ UNCHANGED <<customers, accounts, opening, users, users_file, clock,
                   uuid_count, history, session_user>>

SessionCreateAccount == CreateAccountOf(SessionInitialDeposits)

SessionUpdateBalance ==
    \E session \in Sessions, op \in SessionOperations,
       account_id \in AccountIdInputs, amount \in SessionAmounts :
        update_balance(session, op, account_id, amount)

SessionRecordTransaction ==
    \E session \in Sessions, description \in Descriptions, now \in Nows :
        /\ record_transaction(session, description, now)
        /\ clock' <= MaxClock

SessionSaveData == \E session \in Sessions : save_data(session)

NextSessions ==
    \/ CreateCustomer \/ SessionCreateAccount \/ SessionUpdateBalance
    \/ SessionRecordTransaction \/ SessionSaveData

SpecSessions == Init /\ [][NextSessions]_vars

-----------------------------------------------------------------------------
(* A browser session with its profile page, beside the calls other sessions  *)
(* make on the identity store.  st.session_state.user is the User object     *)
(* login returned: the object held by the store until the user is deleted.   *)

\* the change password form: current, new and confirmed password
PasswordForms ==
    {<<"bobsecret", "newsecret", "newsecret">>,
     <<"newsecret", "bobsecret", "bobsecret">>,
     <<"bobsecret", "", "">>,
     <<"bobsecret", "newsecret", "bobsecret">>,
     <<"bobsecret", "short", "short">>}

\* User.change_password
change_password(user, new_password) ==
    [user EXCEPT !.password_hash = hash_password(new_password)]

\* _handle_password_change: the message of the st.error shown, None when
\* the password is changed
PasswordChangeRejection(user, current_password, new_password, confirm_new_password) ==
    IF current_password = "" \/ new_password = "" \/ confirm_new_password = ""
    THEN "Please fill in all password fields"
    ELSE IF ~check_password(user, current_password)
    THEN "Current password is incorrect"
    ELSE IF new_password # confirm_new_password
    THEN "New passwords do not match"
    ELSE IF Len(new_password) < 6
    THEN "New password must be at least 6 characters long"
    ELSE None

\* the session's User object after a call on the store: the stored object
\* while the store holds it, the object as it was once it is deleted
SessionObject(session, us) ==
    IF session # <<>> /\ \E k \in DOMAIN us : us[k].id = session[1].id
    THEN <<us[CHOOSE k \in DOMAIN us : us[k].id = session[1].id]>>
    ELSE session

\* _handle_login: a successful login stores the user in the session state
handle_login(username, password, now) ==
    /\ session_user = <<>>
    /\ username # "" /\ password # ""
    /\ login(username, password, now)
    /\ session_user' = IF last'.ok
                       THEN <<users'[UserIndex(users', username)]>>
                       ELSE session_user
    /\ UNCHANGED <<history, threads>>

\* _handle_password_change, called by show_user_profile with
\* st.session_state.user
handle_password_change(current_password, new_password, confirm_new_password) ==
    /\ session_user # <<>>
    /\ LET user == session_user[1]
           rejection == PasswordChangeRejection(user, current_password,
                                                new_password,
                                                confirm_new_password)
       IN  IF rejection # None
           THEN /\ last' = Call("change_password", FALSE, rejection)
                /\ UNCHANGED <<users, users_file, session_user>>
           ELSE LET user1 == change_password(user, new_password)
                    users1 == UserSet(users, user.username, user1)
                IN  /\ users' = users1
                    /\ users_file' = SavedUsers(users1)
                    /\ session_user' = <<user1>>
                    /\ last' = Call("change_password", TRUE,
                                    "Password changed successfully!")
    /\ UNCHANGED <<customers, accounts, opening, ledger_file, clock,
                   uuid_count, history, threads>>

\* AuthenticationUI.logout
logout ==
    /\ session_user # <<>>
    /\ session_user' = <<>>
    /\ last' = Call("logout", TRUE, None)
    /\ UNCHANGED <<customers, accounts, opening, ledger_file, users,
                   users_file, clock, uuid_count, history, threads>>

ProfileLogin ==
    \E username \in FacadeUsernames, password \in FacadePasswords,
       now \in Nows :
        /\ handle_login(username, password, now)
        /\ clock' <= MaxClock

ProfileChangePassword ==
    \E form \in PasswordForms :
        handle_password_change(form[1], form[2], form[3])

ProfileLogout == logout

ProfileSetActive ==
    \E username \in FacadeUsernames, is_active \in BOOLEAN :
        /\ update_user_status(username, is_active)
        /\ session_user' = SessionObject(session_user, users')
        /\ UNCHANGED <<history, threads>>

NextProfile ==
    \/ ProfileLogin \/ ProfileChangePassword \/ ProfileLogout
    \/ ProfileSetActive \/ FacadeRegister \/ FacadeDelete

SpecProfile == Init /\ [][NextProfile]_vars

-----------------------------------------------------------------------------
(* Properties of the ledger *)

\* +amount for a deposit or transfer_in, -amount for a withdraw or transfer_out
SignedAmount(transaction_type, amount) ==
    IF transaction_type \in {"deposit", "transfer_in"} THEN amount ELSE 0 - amount

\* C1: every account's balance equals the balance_after of its most recently
\* appended transaction, or the balance it was created with when its log is
\* empty.
C1_BalanceIsLastBalanceAfter ==
    \A i \in DOMAIN accounts :
        IF accounts[i].transactions = <<>>
        THEN accounts[i].balance = opening[i]
        ELSE accounts[i].balance = Last(accounts[i].transactions).balance_after

\* C2: no account balance is ever negative.
C2_BalanceNeverNegative ==
    \A i \in DOMAIN accounts : accounts[i].balance >= 0

\* C3: a transfer that succeeds between two different existing accounts A and
\* B (so A.balance >= amount) debits A by amount, credits B by amount, appends
\* exactly one transfer_out to A (reference_account = B, balance_after = the
\* new balance of A) and exactly one transfer_in to B (reference_account = A,
\* balance_after = the new balance of B), and touches no other account.
C3_TransferPostcondition ==
    [][\A f \in AccountIdInputs, t \in AccountIdInputs, amount \in Amounts,
          description \in Descriptions, now \in Nows :
          (/\ f # t
           /\ transfer_funds(f, t, amount, description, now, now)
           /\ last'.ok)
          => LET i == IndexOf(accounts, f)
                 j == IndexOf(accounts, t)
                 out == Last(accounts'[i].transactions)
                 in == Last(accounts'[j].transactions)
             IN  /\ accounts[i].balance >= amount
                 /\ accounts'[i].balance = accounts[i].balance - amount
                 /\ accounts'[j].balance = accounts[j].balance + amount
                 /\ accounts'[i].transactions =
                        Append(accounts[i].transactions, out)
                 /\ accounts'[j].transactions =
                        Append(accounts[j].transactions, in)
                 /\ out.type = "transfer_out" /\ out.amount = amount
                 /\ out.reference_account = t
                 /\ out.balance_after = accounts'[i].balance
                 /\ in.type = "transfer_in" /\ in.amount = amount
                 /\ in.reference_account = f
                 /\ in.balance_after = accounts'[j].balance
                 /\ Len(accounts') = Len(accounts)
                 /\ \A k \in DOMAIN accounts :
                        k \notin {i, j} => accounts'[k] = accounts[k]
      ]_vars

\* a transfer of a positive amount between two different accounts has just
\* succeeded
C3_Witness ==
    /\ last.op = "transfer_funds" /\ last.ok
    /\ \E i, j \in DOMAIN accounts :
           /\ i # j
           /\ accounts[i].transactions # <<>>
           /\ accounts[j].transactions # <<>>
           /\ Last(accounts[i].transactions).type = "transfer_out"
           /\ Last(accounts[i].transactions).amount > 0
           /\ Last(accounts[i].transactions).reference_account = accounts[j].id
           /\ Last(accounts[j].transactions).type = "transfer_in"
           /\ Last(accounts[j].transactions).id = Uuid(uuid_count)

\* C4: createAccount with an initial deposit d > 0 yields an account whose
\* balance is exactly d and whose log holds exactly one transaction, a deposit
\* of d described "Initial deposit" with balance_after = d.
C4_CreateAccountWithDeposit ==
    [][\A customer_id \in CustomerIdInputs, account_type \in AccountTypes,
          d \in InitialDeposits, now \in Nows :
          (/\ d > 0
           /\ create_account(customer_id, account_type, d, now)
           /\ last'.ok)
          => LET a == Last(accounts')
             IN  /\ a.balance = d
                 /\ Len(a.transactions) = 1
                 /\ a.transactions[1].type = "deposit"
                 /\ a.transactions[1].amount = d
                 /\ a.transactions[1].description = "Initial deposit"
                 /\ a.transactions[1].balance_after = d
      ]_vars

\* C5: a transfer from an existing account A to an existing account B of more
\* than A's balance fails with "Insufficient funds" and leaves every account
\* (balances and transaction lists) and the persisted ledger document as they
\* were.
C5_InsufficientTransferRejected ==
    [][\A f \in AccountIdInputs, t \in AccountIdInputs, amount \in Amounts,
          description \in Descriptions, now \in Nows :
          (/\ Has(accounts, f) /\ Has(accounts, t)
           /\ amount > accounts[IndexOf(accounts, f)].balance
           /\ transfer_funds(f, t, amount, description, now, now))
          => /\ ~last'.ok
             /\ last'.result = "Insufficient funds"
             /\ UNCHANGED <<customers, accounts, ledger_file>>
      ]_vars

\* a transfer has just been refused for lack of funds, with two accounts in
\* the ledger, one of them funded
C5_Witness ==
    /\ last.op = "transfer_funds" /\ ~last.ok
    /\ last.result = "Insufficient funds"
    /\ Len(accounts) >= 2
    /\ \E i \in DOMAIN accounts : accounts[i].balance > 0

\* C6 as claimed, for an account whose balance is not negative: a withdrawal
\* of more than the balance fails with "Insufficient funds" and changes
\* nothing; a withdrawal of exactly the balance succeeds and leaves balance 0.
C6_WithdrawAsClaimed ==
    [][\A account_id \in AccountIdInputs, amount \in Amounts,
          description \in Descriptions, now \in Nows :
          (/\ Has(accounts, account_id)
           /\ accounts[IndexOf(accounts, account_id)].balance >= 0
           /\ withdraw(account_id, amount, description, now))
          => LET i == IndexOf(accounts, account_id)
             IN  /\ amount > accounts[i].balance
                    => /\ ~last'.ok
                       /\ last'.result = "Insufficient funds"
                       /\ UNCHANGED <<accounts, ledger_file>>
                 /\ amount = accounts[i].balance
                    => last'.ok /\ accounts'[i].balance = 0
      ]_vars

\* C6 as amended: a withdrawal of a positive amount greater than the balance
\* fails with "Insufficient funds" and changes nothing; a withdrawal of a
\* positive amount exactly equal to the balance succeeds and leaves balance 0.
C6_Withdraw ==
    [][\A account_id \in AccountIdInputs, amount \in Amounts,
          description \in Descriptions, now \in Nows :
          (/\ Has(accounts, account_id)
           /\ amount > 0
           /\ withdraw(account_id, amount, description, now))
          => LET i == IndexOf(accounts, account_id)
             IN  /\ amount > accounts[i].balance
                    => /\ ~last'.ok
                       /\ last'.result = "Insufficient funds"
                       /\ UNCHANGED <<accounts, ledger_file>>
                 /\ amount = accounts[i].balance
                    => /\ last'.ok
                       /\ accounts'[i].balance = 0
                       /\ Last(accounts'[i].transactions).type = "withdraw"
                       /\ Last(accounts'[i].transactions).amount = amount
      ]_vars

\* an account was emptied by a withdrawal of its whole balance, and a further
\* withdrawal from the ledger has just been refused for lack of funds
C6_Witness ==
    /\ last.op = "withdraw" /\ ~last.ok
    /\ last.result = "Insufficient funds"
    /\ \E i \in DOMAIN accounts :
           /\ accounts[i].transactions # <<>>
           /\ Last(accounts[i].transactions).type = "withdraw"
           /\ accounts[i].balance = 0

\* C7: a deposit or a withdrawal of an amount <= 0 fails with the validation
\* error of the operation, and the account (balance and transaction list) and
\* the persisted ledger are unchanged by the failed call.
C7_NonPositiveAmountRejected ==
    [][\A account_id \in AccountIdInputs, amount \in Amounts,
          description \in Descriptions, now \in Nows :
          (Has(accounts, account_id) /\ amount <= 0)
          => /\ deposit(account_id, amount, description, now)
                => /\ ~last'.ok
                   /\ last'.result = "Deposit amount must be positive"
                   /\ UNCHANGED <<accounts, ledger_file>>
             /\ withdraw(account_id, amount, description, now)
                => /\ ~last'.ok
                   /\ last'.result = "Withdrawal amount must be positive"
                   /\ UNCHANGED <<accounts, ledger_file>>
      ]_vars

\* a deposit into a funded account has just been refused as not positive
C7_Witness ==
    /\ last.op = "deposit" /\ ~last.ok
    /\ last.result = "Deposit amount must be positive"
    /\ \E i \in DOMAIN accounts : accounts[i].balance > 0

\* C8: every transaction in every account's log has a strictly positive
\* amount (so a transfer of an amount <= 0 records no transaction).
C8_TransactionAmountsPositive ==
    \A i \in DOMAIN accounts :
        \A k \in DOMAIN accounts[i].transactions :
            accounts[i].transactions[k].amount > 0

\* the amounts, in order, of the transactions of one type in a persisted
\* account that reference the account with id other
TransferAmounts(account_dict, transaction_type, other) ==
    LET Match(x) == /\ x.transaction_type = transaction_type
                    /\ x.reference_account = other
        hits == SelectSeq(account_dict.transactions, Match)
    IN  [k \in DOMAIN hits |-> hits[k].amount]

\* the sum of the signed amounts of a persisted account's transactions
SignedTotal(account_dict) ==
    SumSeq([k \in DOMAIN account_dict.transactions |->
               SignedAmount(account_dict.transactions[k].transaction_type,
                            account_dict.transactions[k].amount)])

IsPrefix(s, t) == Len(s) <= Len(t) /\ SubSeq(t, 1, Len(s)) = s

\* C11: every account's transaction log is append-only: in every step each
\* account is still stored under its id, and its transaction list before the
\* step is a prefix of its list after it, so no recorded transaction is
\* changed, moved or removed.
C11_LogAppendOnly ==
    [][\A i \in DOMAIN accounts :
          /\ i \in DOMAIN accounts'
          /\ accounts'[i].id = accounts[i].id
          /\ IsPrefix(accounts[i].transactions, accounts'[i].transactions)]_vars

\* an account whose log holds an earlier transaction followed by a transfer's
C11_Witness ==
    \E i \in DOMAIN accounts :
        /\ Len(accounts[i].transactions) >= 2
        /\ Last(accounts[i].transactions).type \in {"transfer_in", "transfer_out"}
        /\ accounts[i].transactions[1].type = "deposit"

\* C12: a transfer whose source or destination id is not the id of a stored
\* account fails with "One or both accounts not found" whatever the amount
\* (also when the amount exceeds the source's balance), and changes no
\* account and not the persisted document.
C12_TransferNotFound ==
    [][\A f \in AccountIdInputs, t \in AccountIdInputs, amount \in Amounts,
          description \in Descriptions, now \in Nows :
          (/\ ~Has(accounts, f) \/ ~Has(accounts, t)
           /\ transfer_funds(f, t, amount, description, now, now))
          => /\ last' = Call("transfer_funds", FALSE,
                             "One or both accounts not found")
             /\ accounts' = accounts
             /\ customers' = customers
             /\ ledger_file' = ledger_file]_vars

\* a transfer has been refused as not found while an account holding less
\* than the largest amount exists
C12_Witness ==
    /\ last = Call("transfer_funds", FALSE, "One or both accounts not found")
    /\ \E i \in DOMAIN accounts :
           /\ accounts[i].balance >= 0
           /\ \E amount \in Amounts : amount > accounts[i].balance

\* C13: create_account for a customer id that is not in the store fails with
\* "Customer not found" and adds no account; and every stored account's
\* customer_id is the id of a stored customer.
C13_AccountsHaveCustomers ==
    /\ [](\A i \in DOMAIN accounts : Has(customers, accounts[i].customer_id))
    /\ [][\A customer_id \in CustomerIdInputs, account_type \in AccountTypes,
            initial_deposit \in InitialDeposits, now \in Nows :
            (/\ ~Has(customers, customer_id)
             /\ create_account(customer_id, account_type, initial_deposit, now))
            => /\ last' = Call("create_account", FALSE, "Customer not found")
               /\ accounts' = accounts
               /\ customers' = customers
               /\ ledger_file' = ledger_file]_vars

\* create_account has just been refused for an unknown customer, with an
\* account of a known customer in the store
C13_Witness ==
    /\ last = Call("create_account", FALSE, "Customer not found")
    /\ accounts # <<>>

\* ACC followed by n written with six digits, for n below a million
SixDigitId(n) == "ACC" \o SubSeq("00000", 1, 6 - Len(ToString(n))) \o ToString(n)

\* C14: the account stored n-th has the id ACC followed by n zero-padded to
\* six digits, so ids are unique and increase; a successful create_account
\* returns the id of the account it stored last, appends that account and
\* leaves every earlier account in place; a failed one stores nothing, so
\* the next success gets the next number.
C14_SequentialAccountIds ==
    /\ [](/\ \A i \in DOMAIN accounts : accounts[i].id = SixDigitId(i)
          /\ (last.op = "create_account" /\ last.ok)
                 => last.result = SixDigitId(Len(accounts)))
    /\ [][\A customer_id \in CustomerIdInputs, account_type \in AccountTypes,
            initial_deposit \in InitialDeposits, now \in Nows :
            create_account(customer_id, account_type, initial_deposit, now)
            => IF last'.ok
               THEN /\ Len(accounts') = Len(accounts) + 1
                    /\ SubSeq(accounts', 1, Len(accounts)) = accounts
               ELSE accounts' = accounts]_vars

\* a second account has just been created and its id returned
C14_Witness ==
    /\ last.op = "create_account" /\ last.ok
    /\ last.result = "ACC000002"
    /\ Len(accounts) = 2

-----------------------------------------------------------------------------
(* Properties of the facade *)

\* the calls that change a store when they succeed
MutatingCalls ==
    {"create_customer", "create_account", "deposit", "withdraw",
     "transfer_funds", "register_user", "login", "update_user_status",
     "delete_user"}

\* C10: when a mutating call has returned successfully, the persisted ledger
\* document and the persisted identity document, as load_data reads them (an
\* absent file reads as the empty document), equal the serialization of the
\* in-memory stores.
C10_SavedAfterMutation ==
    (last.op \in MutatingCalls /\ last.ok)
    => /\ LoadedLedger(ledger_file) = LedgerDocument(customers, accounts)
       /\ LoadedUsers(users_file) = UsersDocument(users)

\* a login has just succeeded, with a registered second user, and an account
\* holding a transaction in the ledger
C10_Witness ==
    /\ last.op = "login" /\ last.ok
    /\ Len(users) = 2
    /\ \E i \in DOMAIN users : users[i].last_login # None
    /\ \E i \in DOMAIN accounts : accounts[i].transactions # <<>>
    /\ ledger_file.kind = "json"

-----------------------------------------------------------------------------
(* Properties of the identity store *)

\* C15: whenever a login has failed, the message returned is the one generic
\* message, whether the username was unknown, the user inactive or the
\* password wrong.
C15_LoginFailureMessageGeneric ==
    (last.op = "login" /\ ~last.ok)
    => last.result = "Invalid username or password"

\* C16: login succeeds exactly when the username is stored, the user is
\* active and the stored hash is the hash of the password; a success changes
\* only that user's last_login, to the time of the call, and saves the store;
\* a failure changes neither the store nor the saved document.
C16_LoginOutcome ==
    [][\A username \in IdentityUsernames, password \in LoginPasswords,
          now \in Nows :
          login(username, password, now)
          => LET k == UserIndex(users, username)
                 accepted ==
                     /\ \E i \in DOMAIN users : users[i].username = username
                     /\ users[k].is_active
                     /\ users[k].password_hash = hash_password(password)
             IN  /\ last'.ok <=> accepted
                 /\ IF accepted
                    THEN /\ users' = [users EXCEPT ![k].last_login = isoformat(now)]
                         /\ users[k].last_login # isoformat(now)
                         /\ LoadedUsers(users_file') = UsersDocument(users')
                    ELSE /\ users' = users
                         /\ users_file' = users_file]_vars

\* a second user has just logged in while the admin user is inactive
C16_Witness ==
    /\ last = Call("login", TRUE, "Login successful")
    /\ \E i \in DOMAIN users :
           users[i].username = "bob" /\ users[i].last_login # None
    /\ \E i \in DOMAIN users : ~users[i].is_active

\* C17: the user "admin" is in the store in every state, and delete_user of
\* "admin" returns False and changes neither the store nor the saved
\* document.
C17_AdminAlwaysExists ==
    /\ [](\E i \in DOMAIN users : users[i].username = "admin")
    /\ [][delete_user("admin")
          => /\ last' = Call("delete_user", FALSE, None)
             /\ users' = users
             /\ users_file' = users_file]_vars

\* a delete has just been refused while every username that can be named
\* for deletion other than "admin" is stored, so it was the delete of "admin"
C17_Witness ==
    /\ last = Call("delete_user", FALSE, None)
    /\ \A username \in ManagedUsernames : HasUser(users, username)

\* C18: the user "admin" is active in every state, so no update_user_status
\* call deactivates it.
C18_AdminStaysActive ==
    \A i \in DOMAIN users : users[i].username = "admin" => users[i].is_active

\* a field the form left empty
Empty(field) == field = ""

\* C19: register_user fails and leaves the store and the saved document as
\* they were when a required field is empty, the password has fewer than 6
\* characters, or a stored user has the username or the e-mail address;
\* otherwise it succeeds and appends exactly one user, active, with the
\* username, e-mail address and password given.
C19_RegisterOutcome ==
    [][\A form \in RegistrationForms, now \in Nows :
          LET username == form.username
              email == form.email
              password == form.password
              full_name == form.full_name
              phone == form.phone
          IN
          register_user(username, email, password, form.role, full_name,
                        phone, None, now)
          => IF \/ Empty(username) \/ Empty(email) \/ Empty(password)
                \/ Empty(full_name) \/ Empty(phone)
                \/ Len(password) < 6
                \/ \E i \in DOMAIN users :
                       users[i].username = username \/ users[i].email = email
             THEN /\ ~last'.ok
                  /\ users' = users
                  /\ users_file' = users_file
             ELSE /\ last'.ok
                  /\ Len(users') = Len(users) + 1
                  /\ SubSeq(users', 1, Len(users)) = users
                  /\ Last(users').username = username
                  /\ Last(users').email = email
                  /\ Last(users').is_active
                  /\ Last(users').password_hash = hash_password(password)]_vars

\* a registration has just been refused for its short password, after
\* another one succeeded
C19_Witness ==
    /\ last = Call("register_user", FALSE,
                   "Password must be at least 6 characters long")
    /\ Len(users) = 2

\* C20: no two stored users have the same username, and no two have the same
\* e-mail address, the admin's included.
C20_UsernamesAndEmailsUnique ==
    \A i \in DOMAIN users : \A j \in DOMAIN users :
        (users[i].username = users[j].username \/ users[i].email = users[j].email)
        => i = j

\* a registration under a new username has just been refused because a
\* stored user other than the admin has the e-mail address
C20_Witness ==
    /\ last = Call("register_user", FALSE, "Email already exists")
    /\ \E i \in DOMAIN users :
           users[i].username # "admin" /\ users[i].email = "bob@example.com"

-----------------------------------------------------------------------------
(* Properties of persistence *)

\* C21: a restart creates the default admin only when the users it loaded
\* hold no user with the role admin; when they hold one, the restart leaves
\* the store with exactly the users the document holds, every field as
\* saved, and does not write the document.
C21_BootstrapIdempotent ==
    [][\A now \in Nows :
          BankManagementService_init(now)
          => IF \E i \in DOMAIN LoadedUsers(users_file).users :
                    LoadedUsers(users_file).users[i].role = "admin"
             THEN /\ UsersDocument(users') = LoadedUsers(users_file)
                  /\ users' = users
                  /\ users_file' = users_file
             ELSE /\ \E i \in DOMAIN users' : users'[i].username = "admin"
                  /\ users_file' = SavedUsers(users')]_vars

\* the process has restarted after the admin logged in and was deactivated,
\* with a second user registered
C21_Witness ==
    /\ last.op = "__init__"
    /\ Len(users) = 2
    /\ \E i \in DOMAIN users :
           /\ users[i].username = "admin"
           /\ users[i].last_login # None
           /\ ~users[i].is_active

\* C23: saving the stores and loading the saved files gives back the same
\* customers, accounts (with their transactions, in order and field by
\* field) and users, and saving what was loaded gives the same files.
C23_RoundTrip ==
    LET saved_ledger == SavedLedger(customers, accounts)
        saved_users == SavedUsers(users)
        stores == load_data(saved_ledger)
        loaded_users == load_users(saved_users)
    IN  /\ stores.customers = customers
        /\ stores.accounts = accounts
        /\ loaded_users = users
        /\ SavedLedger(stores.customers, stores.accounts) = saved_ledger
        /\ SavedUsers(loaded_users) = saved_users

\* the process has restarted with a ledger that holds a customer with two
\* accounts and a transfer between them, and an identity store with a user
C23_Witness ==
    /\ last.op = "__init__"
    /\ Len(accounts) = 2
    /\ \E i \in DOMAIN accounts :
           \E k \in DOMAIN accounts[i].transactions :
               accounts[i].transactions[k].reference_account # None
    /\ \E i \in DOMAIN customers : Len(customers[i].accounts) = 2
    /\ users # <<>>

\* C24: once the service has been constructed a well-formed ledger document
\* exists, written by the constructor when it found none.
C24_LedgerDocumentExists ==
    ledger_file.kind = "json"

-----------------------------------------------------------------------------
(* Properties of the history page *)

\* the n transactions appended last, the last one first
NewestFirst(transactions, n) ==
    [k \in 1..(IF n < Len(transactions) THEN n ELSE Len(transactions)) |->
        transactions[Len(transactions) + 1 - k]]

-----------------------------------------------------------------------------
(* Properties of a failing save *)

\* the step is a create_account, deposit, withdraw or transfer whose save
\* raised, and the stores hold what the operation made of them
MutationKeptAfterFailedSave ==
    /\ \A customer_id \in CustomerIdInputs, account_type \in AccountTypes,
          initial_deposit \in FacadeAmounts, now \in Nows,
          file_left \in FailedSave(ledger_file) :
          create_account_save_fails(customer_id, account_type,
                                    initial_deposit, now, file_left)
          => /\ Len(accounts') = Len(accounts) + 1
             /\ Last(accounts').customer_id = customer_id
             /\ Last(accounts').id \notin {accounts[i].id : i \in DOMAIN accounts}
    /\ \A account_id \in AccountIdInputs, amount \in FacadeAmounts,
          description \in Descriptions, now \in Nows,
          file_left \in FailedSave(ledger_file) :
          LET i == IndexOf(accounts, account_id)
          IN  /\ deposit_save_fails(account_id, amount, description, now, file_left)
                 => /\ accounts'[i].balance = accounts[i].balance + amount
                    /\ Len(accounts'[i].transactions) =
                           Len(accounts[i].transactions) + 1
              /\ withdraw_save_fails(account_id, amount, description, now, file_left)
                 => /\ accounts'[i].balance = accounts[i].balance - amount
                    /\ Len(accounts'[i].transactions) =
                           Len(accounts[i].transactions) + 1
    /\ \A f \in AccountIdInputs, t \in AccountIdInputs,
          amount \in FacadeAmounts, description \in Descriptions,
          now \in Nows, file_left \in FailedSave(ledger_file) :
          (f # t /\ transfer_funds_save_fails(f, t, amount, description, now,
                                              now, file_left))
          => LET i == IndexOf(accounts, f)
                 j == IndexOf(accounts, t)
             IN  /\ accounts'[i].balance = accounts[i].balance - amount
                 /\ accounts'[j].balance = accounts[j].balance + amount
                 /\ Last(accounts'[i].transactions).type = "transfer_out"
                 /\ Last(accounts'[j].transactions).type = "transfer_in"

\* C25 as stated: when the save of a create_account, deposit, withdraw or
\* transfer raises, the stores keep the operation's effect, the call ends
\* in an error, and the file still holds the document it held before.
C25_FileKeptAfterFailedSave ==
    [][last'.result = "OSError"
       => /\ MutationKeptAfterFailedSave
          /\ ~last'.ok
          /\ ledger_file' = ledger_file]_vars

\* C25: when the save of a create_account, deposit, withdraw or transfer
\* raises, the stores keep the operation's effect and the call ends in an
\* error; the file holds the document it held before or is left
\* unreadable, and in neither case holds the stores' new content.
C25_FailedSaveNotRolledBack ==
    [][last'.result = "OSError"
       => /\ MutationKeptAfterFailedSave
          /\ ~last'.ok
          /\ ledger_file' = ledger_file \/ ledger_file'.kind = "malformed"
          /\ ledger_file' # SavedLedger(customers', accounts')]_vars

\* the save of a transfer has just raised and left the file unreadable,
\* while the stores hold the transfer
C25_Witness ==
    /\ last = Call("transfer_funds", FALSE, "OSError")
    /\ ledger_file.kind = "malformed"
    /\ \E i \in DOMAIN accounts :
           /\ accounts[i].transactions # <<>>
           /\ Last(accounts[i].transactions).type = "transfer_in"

-----------------------------------------------------------------------------
(* Properties of the enumerated fields *)

\* C26: every account's type is savings, checking or business, every
\* account's status is active, inactive or frozen, and every user's role is
\* admin, employee or customer, whatever strings the operations were called
\* with.
C26_EnumeratedFieldsValid ==
    /\ \A i \in DOMAIN accounts :
           /\ accounts[i].type \in ValidAccountTypes
           /\ accounts[i].status \in ValidStatuses
    /\ \A i \in DOMAIN users : users[i].role \in ValidRoles

-----------------------------------------------------------------------------
(* Properties of the transaction logs *)

\* C29: in every account's log, each transaction's balance_after is the
\* balance_after of the transaction appended before it (the balance the
\* account was created with, for the first one) plus its amount for a
\* deposit or transfer_in, minus its amount for a withdraw or transfer_out.
C29_LogIsRunningBalance ==
    \A i \in DOMAIN accounts :
        \A k \in DOMAIN accounts[i].transactions :
            LET log == accounts[i].transactions
                before == IF k = 1 THEN opening[i] ELSE log[k - 1].balance_after
            IN  log[k].balance_after =
                    before + SignedAmount(log[k].type, log[k].amount)

-----------------------------------------------------------------------------
(* Properties of the bank summary *)

\* C28: every transfer_funds call, successful or failed, for any pair of
\* account ids and any amount, leaves the total_balance of
\* get_bank_summary, the sum of all account balances, unchanged.
C28_TransfersConserveTotal ==
    [][\A from_account_id \in AccountIdInputs, to_account_id \in AccountIdInputs,
          amount \in Amounts, description \in Descriptions, now \in Nows :
          transfer_funds(from_account_id, to_account_id, amount, description,
                         now, now)
          => TotalBalance(accounts') = TotalBalance(accounts)]_vars

-----------------------------------------------------------------------------
(* Properties of concurrent sessions *)

\* the sum of SignedAmount over the first n transactions of a log
RECURSIVE SignedSum(_, _)
SignedSum(log, n) ==
    IF n = 0 THEN 0
    ELSE SignedSum(log, n - 1) + SignedAmount(log[n].type, log[n].amount)

\* C27: the deposits and withdrawals of different sessions never
\* interleave, so when no session is inside an operation no update of a
\* balance has been lost and each transaction's balance_after is the
\* balance its own operation resulted in.
C27_SessionsNeverInterleave ==
    (\A s \in Sessions : threads[s].pc = "idle")
    => \A i \in DOMAIN accounts :
           LET log == accounts[i].transactions
           IN  /\ accounts[i].balance = opening[i] + SignedSum(log, Len(log))
               /\ \A k \in DOMAIN log :
                      log[k].balance_after = opening[i] + SignedSum(log, k)

-----------------------------------------------------------------------------
(* Properties of deleted users *)

\* the persisted identity document holds a user of this name
InUsersFile(file, username) ==
    \E k \in DOMAIN LoadedUsers(file).users :
        LoadedUsers(file).users[k].username = username

\* C30: a username that is absent from the user store and from the
\* persisted identity document, as it is once delete_user has succeeded,
\* comes back only through a successful register_user of that username; no
\* other operation, a password change from a session that logged in before
\* the deletion included, re-creates the user.
C30_DeletedUserStaysDeleted ==
    [][\A username \in FacadeUsernames :
          (/\ ~HasUser(users, username)
           /\ ~InUsersFile(users_file, username)
           /\ HasUser(users', username) \/ InUsersFile(users_file', username))
          => last' = Call("register_user", TRUE, "User registered successfully")]_vars

====
